---- MODULE Spec2Model ----
(***************************************************************************)
(* Bulk AML job engine of aml-bulk: the jobs table, the Runner             *)
(* (run_bulk_job), the Reconciler (setup_database) and the submission      *)
(* paths, in the two deployments the repository contains:                  *)
(*   "app"    - src/streamlit_app.py: one Streamlit process, one thread    *)
(*              per submitted job, setup_database() at the top of every    *)
(*              script run, guarded by st.session_state;                   *)
(*   "worker" - src/app/main.py + src/worker/processing_script.py: a       *)
(*              FastAPI front end that enqueues jobs and one RQ worker     *)
(*              that runs them one after the other; no Reconciler.         *)
(* Every committed UPDATE/INSERT is one atomic step, so a reader of the    *)
(* jobs table can observe every state of the model.                        *)
(***************************************************************************)
EXTENDS Integers, Sequences, FiniteSets, TLC

(* ------------------------------ bounds --------------------------------- *)
MaxJobs == 1
MaxSessions == 2
ExtraRows == 1
MaxDataRows == 3

(* ------------------------- program constants --------------------------- *)
AppCheckpointInterval == 5
WorkerCheckpointInterval == 10
MAX_RETRIES == 3
MinFields == 3
NoTimestamp == 0

NULL == "NULL"
RestartMessage == "App restarted"
EmptyInputMessage == "Input file is empty or invalid."
StopIterationMessage == ""
StoreErrorMessage == "could not connect to server"
MaxRetriesMessage == "Max retries reached"
AttributeErrorMessage == "'NoneType' object has no attribute 'get'"

Variants == {"app", "worker"}
JobIds == 1..MaxJobs
SessionIds == 1..MaxSessions

VARIABLES
    variant,        \* which deployment this behaviour is of
    jobs,           \* the jobs table: job_id -> row
    infile,         \* job_id -> the stored input file (a sequence of rows)
    outfile,        \* job_id -> the output file, once opened for writing
    runner,         \* job_id -> the live run_bulk_job invocation for that job
    queue,          \* the RQ queue "high_priority" (worker deployment)
    sessions,       \* session id -> st.session_state and script position
    orphans,        \* jobs whose status was running at a crash
    corrections,    \* job_id -> times the Reconciler has forced it to failed
    calls,          \* job_id -> the make_api_call results of its Runner, in order
    outopen         \* jobs whose output file is open in their Runner

vars == <<variant, jobs, infile, outfile, runner, queue, sessions, orphans,
          corrections, calls, outopen>>

(* ------------------------------ input ---------------------------------- *)
(* A row of a CSV file as csv.reader yields it: nf fields, read from       *)
(* `lines` physical lines (a quoted field may span lines); api is the      *)
(* outcome the Screening Service gives to each attempt made for the row.   *)
Row(nf, lines, api) == [nf |-> nf, lines |-> lines, api |-> api]

HeaderRow == Row(3, 1, <<>>)
GoodRow == Row(3, 1, <<"success">>)
ShortRow == Row(2, 1, <<>>)
TimeoutRow == Row(3, 1, <<"timeout", "timeout", "timeout">>)
QuotedRow == Row(3, 2, <<"timeout", "success">>)

\* Variant: the two deployments have each other's interval.
CheckpointInterval_Swapped(v) ==
    IF v = "app" THEN WorkerCheckpointInterval ELSE AppCheckpointInterval

CheckpointInterval(v) ==
    IF v = "app" THEN AppCheckpointInterval ELSE WorkerCheckpointInterval

LongFile(v) ==
    [i \in 1..(1 + CheckpointInterval(v) + ExtraRows) |->
        IF i = 1 THEN HeaderRow ELSE GoodRow]

InputFiles(v) ==
    { <<>>,
      <<HeaderRow>>,
      <<HeaderRow, GoodRow, ShortRow, TimeoutRow>>,
      <<HeaderRow, ShortRow, QuotedRow>>,
      LongFile(v) }

RECURSIVE PhysicalLines(_)
PhysicalLines(file) ==
    IF file = <<>> THEN 0
    ELSE Head(file).lines + PhysicalLines(Tail(file))

TotalRows(file) == PhysicalLines(file) - 1

(* ---------------------------- job store -------------------------------- *)
\* datetime.utcnow(): a reading of the clock, later than every timestamp
\* already stored in the job's row (NoTimestamp is a NULL column).
FirstUtcnow == 1

utcnow(store, job_id) ==
    IF store[job_id].end_timestamp > store[job_id].start_timestamp
    THEN store[job_id].end_timestamp + 1
    ELSE store[job_id].start_timestamp + 1

NewJob(total_rows) ==
    [status |-> "pending", start_timestamp |-> FirstUtcnow,
     end_timestamp |-> NoTimestamp, output_filename |-> NULL,
     total_rows |-> total_rows, processed_rows |-> 0, error_message |-> NULL]

\* Variant: end_timestamp written only with a terminal status.
update_job_status_EndOnTerminal(store, job_id, status, error_message) ==
    [store EXCEPT ![job_id].status = status,
                  ![job_id].error_message = error_message,
                  ![job_id].end_timestamp =
                      IF status \in {"completed", "failed"}
                      THEN utcnow(store, job_id) ELSE @]

update_job_status(store, job_id, status, error_message) ==
    [store EXCEPT ![job_id].status = status,
                  ![job_id].error_message = error_message,
                  ![job_id].end_timestamp = utcnow(store, job_id)]

update_job_progress(store, job_id, processed_rows) ==
    [store EXCEPT ![job_id].processed_rows = processed_rows]

\* Variant: the output reference is never committed.
update_output_filename_Lost(store, job_id, name) == store

update_output_filename(store, job_id, name) ==
    [store EXCEPT ![job_id].output_filename = name]

\* Variant: the correction leaves error_message alone.
Reconcile_NoMessage(store) ==
    [j \in DOMAIN store |->
        IF store[j].status = "running"
        THEN [store[j] EXCEPT !.status = "failed"]
        ELSE store[j]]

\* Variant: the correction matches every job that is not completed.
Reconcile_AllUnfinished(store) ==
    [j \in DOMAIN store |->
        IF store[j].status # "completed"
        THEN [store[j] EXCEPT !.status = "failed",
                              !.error_message = RestartMessage]
        ELSE store[j]]

\* Variant: the correction also resets the progress counter.
Reconcile_ResetProgress(store) ==
    [j \in DOMAIN store |->
        IF store[j].status = "running"
        THEN [store[j] EXCEPT !.status = "failed",
                              !.error_message = RestartMessage,
                              !.processed_rows = 0]
        ELSE store[j]]

\* UPDATE jobs SET status = 'failed', error_message = 'App restarted'
\* WHERE status = 'running'
Reconcile(store) ==
    [j \in DOMAIN store |->
        IF store[j].status = "running"
        THEN [store[j] EXCEPT !.status = "failed",
                              !.error_message = RestartMessage]
        ELSE store[j]]

OutputName(job_id) == ToString(job_id) \o "_output.csv"

EmptyFn == [x \in {} |-> NULL]

Put(f, k, v) == [x \in DOMAIN f \cup {k} |-> IF x = k THEN v ELSE f[x]]

(* ------------------------- Screening Service --------------------------- *)
\* What one attempt can meet: a reply that raise_for_status() accepts and
\* response.json() decodes (ReturnedOutcomes), or an exception that
\* make_api_call catches (FailedOutcomes).  "not_success" is a JSON object
\* whose status is not "success"; "bad_body" is a JSON object with status
\* "success" and "result": null.
ReturnedOutcomes == {"success", "not_success", "bad_body"}

FailedOutcomes == {"timeout", "conn_error", "http_error"}

Response(outcome) ==
    [status |-> IF outcome = "not_success" THEN "failed" ELSE "success",
     result |-> IF outcome = "bad_body" THEN NULL ELSE "object",
     match_status |-> "no_match", total_hits |-> "0", hits |-> "hits_url"]

ApiResult(response, status_code, error, attempts) ==
    [response |-> response, status_code |-> status_code, error |-> error,
     attempts |-> attempts]

NoResponse ==
    [status |-> NULL, result |-> NULL, match_status |-> NULL,
     total_hits |-> NULL, hits |-> NULL]

AttemptError(attempt, outcome) ==
    "Error on attempt " \o ToString(attempt) \o ": " \o outcome

ErrorStatusCode(outcome) == IF outcome = "http_error" THEN 500 ELSE -1

\* Variant: the loop gives up one attempt early.
RECURSIVE make_api_call_app_TwoAttempts(_, _)
make_api_call_app_TwoAttempts(script, attempt) ==
    IF attempt > MAX_RETRIES - 1
    THEN ApiResult(NoResponse, -1, MaxRetriesMessage, MAX_RETRIES - 1)
    ELSE IF script[attempt] \in ReturnedOutcomes
         THEN ApiResult(Response(script[attempt]), 200, NULL, attempt)
         ELSE make_api_call_app_TwoAttempts(script, attempt + 1)

RECURSIVE make_api_call_app(_, _)
make_api_call_app(script, attempt) ==
    IF attempt > MAX_RETRIES
    THEN ApiResult(NoResponse, -1, MaxRetriesMessage, MAX_RETRIES)
    ELSE IF script[attempt] \in ReturnedOutcomes
         THEN ApiResult(Response(script[attempt]), 200, NULL, attempt)
         ELSE make_api_call_app(script, attempt + 1)

RECURSIVE make_api_call_worker(_, _)
make_api_call_worker(script, attempt) ==
    IF attempt > MAX_RETRIES
    THEN ApiResult(NoResponse, -1, MaxRetriesMessage, MAX_RETRIES)
    ELSE IF script[attempt] \in ReturnedOutcomes
         THEN ApiResult(Response(script[attempt]), 200, NULL, attempt)
         ELSE IF attempt < MAX_RETRIES
              THEN make_api_call_worker(script, attempt + 1)
              ELSE ApiResult(NoResponse, ErrorStatusCode(script[attempt]),
                             AttemptError(attempt, script[attempt]), attempt)

make_api_call(v, script) ==
    IF v = "app" THEN make_api_call_app(script, 1)
    ELSE make_api_call_worker(script, 1)

fetch_hits_json(hits_url) == IF hits_url = NULL THEN NULL ELSE "hits_json"

DerivedColumns(v) ==
    IF v = "app"
    THEN <<"api_status_code", "match_status", "total_hits", "api_error", "hits_json">>
    ELSE <<"api_status_code", "match_status", "total_hits", "api_error">>

HeaderOut(v) == [src |-> 1, columns |-> DerivedColumns(v)]

\* Variant: the derived columns are appended to the row read before.
OutputRow_Stale(v, src, result) ==
    LET ok == result.response.status = "success"
    IN  IF v = "app"
        THEN [src |-> src - 1, api_status_code |-> result.status_code,
              match_status |-> IF ok THEN result.response.match_status ELSE NULL,
              total_hits |-> IF ok THEN result.response.total_hits ELSE NULL,
              api_error |-> result.error,
              hits_json |-> IF ok THEN fetch_hits_json(result.response.hits) ELSE NULL]
        ELSE [src |-> src - 1, api_status_code |-> result.status_code,
              match_status |-> IF ok THEN result.response.match_status ELSE NULL,
              total_hits |-> IF ok THEN result.response.total_hits ELSE NULL,
              api_error |-> result.error]

OutputRow(v, src, result) ==
    LET ok == result.response.status = "success"
        base == [src |-> src,
                 api_status_code |-> result.status_code,
                 match_status |-> IF ok THEN result.response.match_status ELSE NULL,
                 total_hits |-> IF ok THEN result.response.total_hits ELSE NULL,
                 api_error |-> result.error]
    IN  IF v = "app"
        THEN [src |-> base.src, api_status_code |-> base.api_status_code,
              match_status |-> base.match_status, total_hits |-> base.total_hits,
              api_error |-> base.api_error,
              hits_json |-> IF ok THEN fetch_hits_json(result.response.hits) ELSE NULL]
        ELSE base

(* ------------------------------- Init ---------------------------------- *)
NoSession == [pc |-> "none", reconciliation_done |-> FALSE]

Init ==
    /\ variant \in Variants
    /\ jobs = EmptyFn
    /\ infile = EmptyFn
    /\ outfile = EmptyFn
    /\ runner = EmptyFn
    /\ queue = <<>>
    /\ sessions = [s \in SessionIds |-> NoSession]
    /\ orphans = {}
    /\ corrections = [j \in JobIds |-> 0]
    /\ calls = EmptyFn
    /\ outopen = {}

(* --------------------------- UI sessions (app) ------------------------- *)
\* A browser connects: a new session with an empty st.session_state starts
\* its first script run.
NewSession(s) ==
    /\ variant = "app"
    /\ sessions[s].pc = "none"
    /\ \A t \in SessionIds : t < s => sessions[t].pc # "none"
    /\ sessions' = [sessions EXCEPT ![s] = [pc |-> "run", reconciliation_done |-> FALSE]]
    /\ UNCHANGED <<variant, jobs, infile, outfile, runner, queue, orphans,
                   corrections, calls, outopen>>

\* setup_database(), called at the top of every script run: the first run
\* of a session and every rerun (st.rerun()) after it.
setup_database(s) ==
    /\ variant = "app"
    /\ sessions[s].pc = "run"
    /\ IF sessions[s].reconciliation_done
       THEN UNCHANGED <<jobs, corrections, sessions>>
       ELSE /\ jobs' = Reconcile(jobs)
            /\ corrections' = [j \in JobIds |->
                  IF j \in DOMAIN jobs /\ jobs[j].status = "running"
                  THEN corrections[j] + 1 ELSE corrections[j]]
            /\ sessions' = [sessions EXCEPT ![s].reconciliation_done = TRUE]
    /\ UNCHANGED <<variant, infile, outfile, runner, queue, orphans, calls, outopen>>

NewRunner == [pc |-> "start", pos |-> 1, processed_count |-> 0, exc |-> NULL]

NextJobId == Cardinality(DOMAIN jobs) + 1

\* "Start Processing": store the upload, count its lines, INSERT the job
\* as pending, start the run_bulk_job thread, rerun.
Submit(s, file) ==
    /\ variant = "app"
    /\ sessions[s].pc = "run"
    /\ sessions[s].reconciliation_done
    /\ NextJobId \in JobIds
    /\ jobs' = Put(jobs, NextJobId, NewJob(TotalRows(file)))
    /\ infile' = Put(infile, NextJobId, file)
    /\ runner' = Put(runner, NextJobId, NewRunner)
    /\ UNCHANGED <<variant, outfile, queue, sessions, orphans, corrections, calls, outopen>>

(* ------------------------ submission (worker) -------------------------- *)
\* POST /upload: store the upload, count its lines, INSERT the job as
\* pending, enqueue run_bulk_job on the RQ queue.
create_upload_file(file) ==
    /\ variant = "worker"
    /\ NextJobId \in JobIds
    /\ jobs' = Put(jobs, NextJobId, NewJob(TotalRows(file)))
    /\ infile' = Put(infile, NextJobId, file)
    /\ queue' = Append(queue, NextJobId)
    /\ UNCHANGED <<variant, outfile, runner, sessions, orphans, corrections, calls, outopen>>

Alive(j) == j \in DOMAIN runner /\ runner[j].pc \notin {"done", "dead"}

\* worker.work(): the single RQ worker takes the next job off the queue
\* when it is not running one.
WorkerDequeue ==
    /\ variant = "worker"
    /\ queue # <<>>
    /\ \A j \in DOMAIN runner : ~Alive(j)
    /\ runner' = Put(runner, Head(queue), NewRunner)
    /\ queue' = Tail(queue)
    /\ UNCHANGED <<variant, jobs, infile, outfile, sessions, orphans, corrections, calls, outopen>>

(* ---------------------------- run_bulk_job ----------------------------- *)
\* A job-store write may raise at any time (connection refused, statement
\* failed); the write is then not committed.
StoreMayFail == TRUE

\* Where control goes when a statement of run_bulk_job raises: in the app
\* the whole body is inside the try; in the worker the first status write
\* precedes the try, so an exception there leaves the function.
Raise(j, message, inTry) ==
    IF inTry
    THEN runner' = [runner EXCEPT ![j].pc = "except", ![j].exc = message]
    ELSE runner' = [runner EXCEPT ![j].pc = "dead"]

StartInTry(v) == v = "app"

\* update_job_status(job_id, "running")
run_bulk_job_start(j) ==
    /\ j \in DOMAIN runner
    /\ runner[j].pc = "start"
    /\ \/ /\ jobs' = update_job_status(jobs, j, "running", NULL)
          /\ runner' = [runner EXCEPT ![j].pc = "open"]
       \/ /\ StoreMayFail
          /\ Raise(j, StoreErrorMessage, StartInTry(variant))
          /\ UNCHANGED jobs
    /\ UNCHANGED <<variant, infile, outfile, queue, sessions, orphans, corrections, calls, outopen>>

HeaderMissingMessage(v) ==
    IF v = "app" THEN EmptyInputMessage ELSE StopIterationMessage

\* open(input), open(output, 'w'), header = next(reader), write the header.
run_bulk_job_open(j) ==
    /\ j \in DOMAIN runner
    /\ runner[j].pc = "open"
    /\ IF infile[j] = <<>>
       THEN /\ outfile' = Put(outfile, j, <<>>)
            /\ Raise(j, HeaderMissingMessage(variant), TRUE)
            /\ UNCHANGED <<calls, outopen>>
       ELSE /\ outfile' = Put(outfile, j, <<HeaderOut(variant)>>)
            /\ runner' = [runner EXCEPT ![j].pc = "loop", ![j].pos = 2]
            /\ calls' = Put(calls, j, <<>>)
            /\ outopen' = outopen \cup {j}
    /\ UNCHANGED <<variant, jobs, infile, queue, sessions, orphans, corrections>>

\* Variant: a short row is left out of the output but counted.
run_bulk_job_skip_row_Counted(j) ==
    /\ j \in DOMAIN runner
    /\ runner[j].pc = "loop"
    /\ runner[j].pos <= Len(infile[j])
    /\ infile[j][runner[j].pos].nf < MinFields
    /\ runner' = [runner EXCEPT
           ![j].pos = @ + 1,
           ![j].processed_count = @ + 1,
           ![j].pc = IF (runner[j].processed_count + 1) % CheckpointInterval(variant) = 0
                     THEN "checkpoint" ELSE "loop"]
    /\ UNCHANGED <<variant, jobs, infile, outfile, queue, sessions, orphans,
                   corrections, calls, outopen>>

\* for row in reader: if len(row) < 3: continue
run_bulk_job_skip_row(j) ==
    /\ j \in DOMAIN runner
    /\ runner[j].pc = "loop"
    /\ runner[j].pos <= Len(infile[j])
    /\ infile[j][runner[j].pos].nf < MinFields
    /\ runner' = [runner EXCEPT ![j].pos = @ + 1]
    /\ UNCHANGED <<variant, jobs, infile, outfile, queue, sessions, orphans, corrections, calls, outopen>>

\* result = response_json.get("result", {}); result.get("match_status"):
\* raises AttributeError when the reply has status "success" and a null
\* result.
ResultUnusable(response) ==
    response.status = "success" /\ response.result = NULL

\* make_api_call(...), writer.writerow(...), processed_count += 1
run_bulk_job_row(j) ==
    /\ j \in DOMAIN runner
    /\ runner[j].pc = "loop"
    /\ runner[j].pos <= Len(infile[j])
    /\ infile[j][runner[j].pos].nf >= MinFields
    /\ LET row == infile[j][runner[j].pos]
           result == make_api_call(variant, row.api)
           count == runner[j].processed_count + 1
       IN  /\ calls' = [calls EXCEPT ![j] = Append(@, result)]
           /\ IF ResultUnusable(result.response)
              THEN /\ Raise(j, AttributeErrorMessage, TRUE)
                   /\ outopen' = outopen \ {j}
                   /\ UNCHANGED outfile
              ELSE /\ outfile' = [outfile EXCEPT ![j] =
                          Append(@, OutputRow(variant, runner[j].pos, result))]
                   /\ runner' = [runner EXCEPT
                          ![j].pos = @ + 1,
                          ![j].processed_count = count,
                          ![j].pc = IF count % CheckpointInterval(variant) = 0
                                    THEN "checkpoint" ELSE "loop"]
                   /\ UNCHANGED outopen
    /\ UNCHANGED <<variant, jobs, infile, queue, sessions, orphans, corrections>>

\* if processed_count % N == 0: update_job_progress(job_id, processed_count)
run_bulk_job_checkpoint(j) ==
    /\ j \in DOMAIN runner
    /\ runner[j].pc = "checkpoint"
    /\ \/ /\ jobs' = update_job_progress(jobs, j, runner[j].processed_count)
          /\ runner' = [runner EXCEPT ![j].pc = "loop"]
          /\ UNCHANGED outopen
       \/ /\ StoreMayFail
          /\ Raise(j, StoreErrorMessage, TRUE)
          /\ outopen' = outopen \ {j}
          /\ UNCHANGED jobs
    /\ UNCHANGED <<variant, infile, outfile, queue, sessions, orphans, corrections, calls>>

\* Variant: the files are not closed when the loop ends (no with block).
run_bulk_job_final_checkpoint_KeepsOpen(j) ==
    /\ j \in DOMAIN runner
    /\ runner[j].pc = "loop"
    /\ runner[j].pos > Len(infile[j])
    /\ \/ /\ jobs' = update_job_progress(jobs, j, runner[j].processed_count)
          /\ runner' = [runner EXCEPT ![j].pc = "outref"]
       \/ /\ StoreMayFail
          /\ Raise(j, StoreErrorMessage, TRUE)
          /\ UNCHANGED jobs
    /\ UNCHANGED <<variant, infile, outfile, queue, sessions, orphans,
                   corrections, calls, outopen>>

\* Variant: no checkpoint after the last row; the with block just ends.
run_bulk_job_final_checkpoint_Skipped(j) ==
    /\ j \in DOMAIN runner
    /\ runner[j].pc = "loop"
    /\ runner[j].pos > Len(infile[j])
    /\ runner' = [runner EXCEPT ![j].pc = "outref"]
    /\ outopen' = outopen \ {j}
    /\ UNCHANGED <<variant, jobs, infile, outfile, queue, sessions, orphans,
                   corrections, calls>>

\* After the last row: update_job_progress(job_id, processed_count); the
\* with block then closes both files.
run_bulk_job_final_checkpoint(j) ==
    /\ j \in DOMAIN runner
    /\ runner[j].pc = "loop"
    /\ runner[j].pos > Len(infile[j])
    /\ \/ /\ jobs' = update_job_progress(jobs, j, runner[j].processed_count)
          /\ runner' = [runner EXCEPT ![j].pc = "outref"]
       \/ /\ StoreMayFail
          /\ Raise(j, StoreErrorMessage, TRUE)
          /\ UNCHANGED jobs
    /\ outopen' = outopen \ {j}
    /\ UNCHANGED <<variant, infile, outfile, queue, sessions, orphans, corrections, calls>>

\* UPDATE jobs SET output_filename = ... WHERE job_id = ...
run_bulk_job_output_ref(j) ==
    /\ j \in DOMAIN runner
    /\ runner[j].pc = "outref"
    /\ \/ /\ jobs' = update_output_filename(jobs, j, OutputName(j))
          /\ runner' = [runner EXCEPT ![j].pc = "complete"]
       \/ /\ StoreMayFail
          /\ Raise(j, StoreErrorMessage, TRUE)
          /\ UNCHANGED jobs
    /\ UNCHANGED <<variant, infile, outfile, queue, sessions, orphans, corrections, calls, outopen>>

\* update_job_status(job_id, "completed")
run_bulk_job_completed(j) ==
    /\ j \in DOMAIN runner
    /\ runner[j].pc = "complete"
    /\ \/ /\ jobs' = update_job_status(jobs, j, "completed", NULL)
          /\ runner' = [runner EXCEPT ![j].pc = "done"]
       \/ /\ StoreMayFail
          /\ Raise(j, StoreErrorMessage, TRUE)
          /\ UNCHANGED jobs
    /\ UNCHANGED <<variant, infile, outfile, queue, sessions, orphans, corrections, calls, outopen>>

\* except Exception as e: update_job_status(job_id, "failed", str(e));
\* if that write raises too, the exception leaves run_bulk_job.
run_bulk_job_except(j) ==
    /\ j \in DOMAIN runner
    /\ runner[j].pc = "except"
    /\ \/ /\ jobs' = update_job_status(jobs, j, "failed", runner[j].exc)
          /\ runner' = [runner EXCEPT ![j].pc = "done"]
       \/ /\ StoreMayFail
          /\ Raise(j, StoreErrorMessage, FALSE)
          /\ UNCHANGED jobs
    /\ UNCHANGED <<variant, infile, outfile, queue, sessions, orphans, corrections, calls, outopen>>

(* ------------------------------- crash --------------------------------- *)
\* The process that runs the jobs dies (the Streamlit process with its
\* threads and sessions, or the RQ worker): the database, the files and
\* the queue survive.
Crash ==
    /\ DOMAIN jobs # {}
    /\ runner' = EmptyFn
    /\ sessions' = [s \in SessionIds |-> NoSession]
    /\ orphans' = orphans \cup {j \in DOMAIN jobs : jobs[j].status = "running"}
    /\ outopen' = {}
    /\ UNCHANGED <<variant, jobs, infile, outfile, queue, corrections, calls>>

Next ==
    \/ \E s \in SessionIds : NewSession(s)
    \/ \E s \in SessionIds : setup_database(s)
    \/ \E s \in SessionIds : \E file \in InputFiles(variant) : Submit(s, file)
    \/ \E file \in InputFiles(variant) : create_upload_file(file)
    \/ WorkerDequeue
    \/ \E j \in JobIds : run_bulk_job_start(j)
    \/ \E j \in JobIds : run_bulk_job_open(j)
    \/ \E j \in JobIds : run_bulk_job_skip_row(j)
    \/ \E j \in JobIds : run_bulk_job_row(j)
    \/ \E j \in JobIds : run_bulk_job_checkpoint(j)
    \/ \E j \in JobIds : run_bulk_job_final_checkpoint(j)
    \/ \E j \in JobIds : run_bulk_job_output_ref(j)
    \/ \E j \in JobIds : run_bulk_job_completed(j)
    \/ \E j \in JobIds : run_bulk_job_except(j)
    \/ Crash

Spec == Init /\ [][Next]_vars

(* ------------------------------ scheduling ----------------------------- *)
\* One step of the run_bulk_job invocation of job j.
RunnerStep(j) ==
    \/ run_bulk_job_start(j)
    \/ run_bulk_job_open(j)
    \/ run_bulk_job_skip_row(j)
    \/ run_bulk_job_row(j)
    \/ run_bulk_job_checkpoint(j)
    \/ run_bulk_job_final_checkpoint(j)
    \/ run_bulk_job_output_ref(j)
    \/ run_bulk_job_completed(j)
    \/ run_bulk_job_except(j)

\* A live thread or RQ job keeps running (every statement of run_bulk_job
\* returns: the requests have a timeout, the files are finite); the RQ
\* worker keeps taking jobs; after a start of the app a browser connects
\* and its script run reaches setup_database(), however often the process
\* is killed in between.  Crashes, submissions and store failures are
\* under no obligation.
Fairness ==
    /\ \A j \in JobIds : WF_vars(RunnerStep(j))
    /\ WF_vars(WorkerDequeue)
    /\ SF_vars(\E s \in SessionIds : NewSession(s))
    /\ SF_vars(\E s \in SessionIds : setup_database(s))

SpecLive == Init /\ [][Next]_vars /\ Fairness

(* ------------------- one job, every kind of input ---------------------- *)
\* The attempts the Screening Service can answer for one row: failures up
\* to the first reply that returns, or MAX_RETRIES failures.
FailedScripts(n) == [1..n -> FailedOutcomes]

Scripts ==
    UNION { { Append(f, r) : f \in FailedScripts(n), r \in ReturnedOutcomes } :
            n \in 0..(MAX_RETRIES - 1) }
    \cup FailedScripts(MAX_RETRIES)

QuotedHeaderRow == Row(3, 2, <<>>)
NotSuccessRow == Row(3, 1, <<"not_success">>)
BadBodyRow == Row(3, 1, <<"http_error", "bad_body">>)

RowKinds == {GoodRow, ShortRow, TimeoutRow, QuotedRow, NotSuccessRow, BadBodyRow}

RowFiles(v) ==
    { <<>>, LongFile(v) }
    \cup { <<HeaderRow, Row(MinFields, 1, script)>> : script \in Scripts }
    \cup UNION { { <<header>> \o rows : header \in {HeaderRow, QuotedHeaderRow},
                                        rows \in [1..n -> RowKinds] } :
                 n \in 0..MaxDataRows }

\* The state right after the first submission of a fresh deployment: in
\* the app, session 1 has run setup_database() and started the thread; in
\* the worker, the job is on the queue.
InitRows ==
    /\ variant \in Variants
    /\ \E file \in RowFiles(variant) :
          /\ jobs = Put(EmptyFn, 1, NewJob(TotalRows(file)))
          /\ infile = Put(EmptyFn, 1, file)
    /\ outfile = EmptyFn
    /\ runner = IF variant = "app" THEN Put(EmptyFn, 1, NewRunner) ELSE EmptyFn
    /\ queue = IF variant = "app" THEN <<>> ELSE <<1>>
    /\ sessions = [s \in SessionIds |->
          IF variant = "app" /\ s = 1
          THEN [pc |-> "run", reconciliation_done |-> TRUE] ELSE NoSession]
    /\ orphans = {}
    /\ corrections = [j \in JobIds |-> 0]
    /\ calls = EmptyFn
    /\ outopen = {}

\* The Runner alone: no further submission, no second session, no crash.
NextRows ==
    \/ WorkerDequeue
    \/ \E j \in JobIds : run_bulk_job_start(j)
    \/ \E j \in JobIds : run_bulk_job_open(j)
    \/ \E j \in JobIds : run_bulk_job_skip_row(j)
    \/ \E j \in JobIds : run_bulk_job_row(j)
    \/ \E j \in JobIds : run_bulk_job_checkpoint(j)
    \/ \E j \in JobIds : run_bulk_job_final_checkpoint(j)
    \/ \E j \in JobIds : run_bulk_job_output_ref(j)
    \/ \E j \in JobIds : run_bulk_job_completed(j)
    \/ \E j \in JobIds : run_bulk_job_except(j)

SpecRows == InitRows /\ [][NextRows]_vars

(* ------------------------------ claims --------------------------------- *)
Terminal(status) == status \in {"completed", "failed"}

\* The step executes the Reconciler's correcting UPDATE (in some session
\* setup_database passes its guard).
ReconcilerRuns ==
    \E s \in SessionIds :
        /\ ~sessions[s].reconciliation_done
        /\ sessions'[s].reconciliation_done

\* The Reconciler has run in the current process lifetime.
ReconciledSinceStartup == \E s \in SessionIds : sessions[s].reconciliation_done

\* The Runner of job j has accepted it (is past its first status write).
Accepted(j) == j \in DOMAIN runner /\ runner[j].pc # "start"

\* C1: the stored status only moves pending -> running -> {completed,
\* failed}; stated here by the clause that closes the claim: once a job's
\* stored status is completed or failed, no later write changes it, so a
\* job forced to failed by the Reconciler never afterwards becomes running
\* or completed.
C1_TerminalStatusIsFinal ==
    [][\A j \in DOMAIN jobs :
          Terminal(jobs[j].status) => jobs'[j].status = jobs[j].status]_vars

\* C2 (as stated): in every reachable state a job's output reference is
\* non-null if and only if its status is completed.
C2_OutputIffCompleted ==
    \A j \in DOMAIN jobs :
        (jobs[j].output_filename # NULL) <=> (jobs[j].status = "completed")

\* C2 (amended): a completed job always has a non-null output reference and
\* a pending job never has one; the output reference is written before the
\* status, so it can be non-null while the status is running or failed.
C2_CompletedHasOutput ==
    \A j \in DOMAIN jobs :
        /\ jobs[j].status = "completed" => jobs[j].output_filename # NULL
        /\ jobs[j].status = "pending" => jobs[j].output_filename = NULL

C2_Witness ==
    \E j \in DOMAIN jobs :
        /\ jobs[j].status = "completed"
        /\ jobs[j].output_filename = OutputName(j)

\* C3: whenever the Reconciler forces a job from running to failed, no
\* run_bulk_job invocation for that job is still alive.
C3_ReconcilerOnlyCorrectsOrphans ==
    [][\A j \in DOMAIN jobs :
          corrections'[j] # corrections[j] => ~Alive(j)]_vars

\* C4: within one process lifetime the Reconciler's correcting update
\* executes at most once, and before any job is accepted by a Runner of
\* that process.
C4_ReconcilerOncePerProcess ==
    [][ReconcilerRuns =>
          /\ ~ReconciledSinceStartup
          /\ \A j \in DOMAIN jobs : ~Accepted(j)]_vars

\* C5: a job whose status was running when the process crashed is, once
\* the Reconciler has run after the restart, failed with the restart
\* message as its non-null error_message, and was corrected exactly once.
C5_CrashRecovery ==
    \A j \in orphans :
        ReconciledSinceStartup =>
            /\ jobs[j].status = "failed"
            /\ jobs[j].error_message # NULL
            /\ jobs[j].error_message = RestartMessage
            /\ corrections[j] = 1

C5_Witness ==
    \E j \in orphans :
        /\ ReconciledSinceStartup
        /\ jobs[j].status = "failed"
        /\ corrections[j] = 1

\* C6: the Reconciler is idempotent, is the identity on a store with no
\* running job, and changes nothing but status and error_message of the
\* jobs that were running.
C6_ReconcilerIdempotentAndFramed ==
    LET once == Reconcile(jobs) IN
    /\ DOMAIN once = DOMAIN jobs
    /\ Reconcile(once) = once
    /\ (\A j \in DOMAIN jobs : jobs[j].status # "running") => once = jobs
    /\ \A j \in DOMAIN jobs :
          /\ jobs[j].status # "running" => once[j] = jobs[j]
          /\ once[j].processed_rows = jobs[j].processed_rows
          /\ once[j].total_rows = jobs[j].total_rows
          /\ once[j].output_filename = jobs[j].output_filename
          /\ once[j].start_timestamp = jobs[j].start_timestamp
          /\ once[j].end_timestamp = jobs[j].end_timestamp

C6_Witness ==
    \E j \in DOMAIN jobs :
        /\ corrections[j] = 1
        /\ jobs[j].status = "failed"
        /\ jobs[j].error_message = RestartMessage
        /\ jobs[j].processed_rows > 0
        /\ Reconcile(jobs) = jobs

\* C7: end_timestamp is null in every state in which the job's status is
\* pending or running (it is written only with completed or failed).
C7_EndTimestampOnlyWhenTerminal ==
    \A j \in DOMAIN jobs :
        jobs[j].status \in {"pending", "running"} =>
            jobs[j].end_timestamp = NoTimestamp

\* C8: every job whose status is completed or failed has a non-null
\* end_timestamp, also when it was the Reconciler that made it failed.
C8_TerminalHasEndTimestamp ==
    \A j \in DOMAIN jobs :
        Terminal(jobs[j].status) => jobs[j].end_timestamp # NoTimestamp

C8_Witness ==
    \E j \in DOMAIN jobs :
        /\ corrections[j] = 1
        /\ jobs[j].status = "failed"
        /\ jobs[j].error_message = RestartMessage
        /\ jobs[j].end_timestamp # NoTimestamp

\* C9: error_message is null whenever the status is not failed, and once
\* it has a non-null value no later write replaces or clears it.
C9_ErrorMessageSetOnce ==
    [][\A j \in DOMAIN jobs :
          /\ jobs[j].status # "failed" => jobs[j].error_message = NULL
          /\ jobs'[j].status # "failed" => jobs'[j].error_message = NULL
          /\ jobs[j].error_message # NULL =>
                jobs'[j].error_message = jobs[j].error_message]_vars

\* C10: the stored processed_rows of a job never decreases.
C10_ProcessedRowsNonDecreasing ==
    [][\A j \in DOMAIN jobs :
          jobs'[j].processed_rows >= jobs[j].processed_rows]_vars

C10_Witness ==
    \E j \in DOMAIN jobs :
        /\ jobs[j].status = "completed"
        /\ jobs[j].processed_rows > CheckpointInterval(variant)

(* ------------------------- rows and counters --------------------------- *)
\* The positions of the data rows of a file that the Runner transforms.
GoodPositions(file) == {i \in 2..Len(file) : file[i].nf >= MinFields}

\* The data rows written to a job's output file so far.
RowsWritten(j) ==
    IF j \in DOMAIN outfile /\ Len(outfile[j]) > 0
    THEN Len(outfile[j]) - 1 ELSE 0

\* C11: in every reachable state, for every input file (an empty one, a
\* header-only one, one with short rows, one with quoted fields spanning
\* lines), the stored processed_rows is at most the stored total_rows.
C11_ProcessedWithinTotal ==
    \A j \in DOMAIN jobs : jobs[j].processed_rows <= jobs[j].total_rows

\* C11, for the files that have a header: the same bound.
C11_NonEmptyWithinTotal ==
    \A j \in DOMAIN jobs :
        infile[j] # <<>> => jobs[j].processed_rows <= jobs[j].total_rows

\* C12: once a job is terminal (completed or failed), the stored
\* processed_rows equals the number of rows the Runner transformed and
\* appended to the output; for a completed job that is the number of input
\* data rows with at least 3 fields.
C12_TerminalCountExact ==
    \A j \in DOMAIN jobs :
        /\ Terminal(jobs[j].status) => jobs[j].processed_rows = RowsWritten(j)
        /\ jobs[j].status = "completed" =>
               jobs[j].processed_rows = Cardinality(GoodPositions(infile[j]))

\* C12 (amended): a completed job's processed_rows equals the number of
\* input data rows with at least 3 fields, all of them appended to the
\* output, whatever the interval; a failed job's processed_rows is the last
\* checkpoint committed, at most the number of rows appended.
C12_CompletedCountExact ==
    \A j \in DOMAIN jobs :
        /\ jobs[j].status = "completed" =>
               /\ jobs[j].processed_rows = Cardinality(GoodPositions(infile[j]))
               /\ jobs[j].processed_rows = RowsWritten(j)
        /\ jobs[j].status = "failed" => jobs[j].processed_rows <= RowsWritten(j)

\* A completed job whose row count is above the interval and not a
\* multiple of it.
C12_Witness ==
    \E j \in DOMAIN jobs :
        /\ jobs[j].status = "completed"
        /\ jobs[j].processed_rows = Cardinality(GoodPositions(infile[j]))
        /\ jobs[j].processed_rows > CheckpointInterval(variant)
        /\ jobs[j].processed_rows % CheckpointInterval(variant) # 0

(* ------------------------------ retries -------------------------------- *)
\* The position in the input of the row the k-th make_api_call was for.
NthGood(file, k) ==
    CHOOSE i \in GoodPositions(file) :
        Cardinality({g \in GoodPositions(file) : g <= i}) = k

\* The attempts of a script that get a reply, among the first MAX_RETRIES.
ReturningAttempts(script) ==
    {a \in 1..Len(script) : a <= MAX_RETRIES /\ script[a] \in ReturnedOutcomes}

AllAttemptsFail(script) == ReturningAttempts(script) = {}

FirstReturn(script) ==
    CHOOSE a \in ReturningAttempts(script) :
        \A b \in ReturningAttempts(script) : a <= b

\* The output rows written for the input row at position src.
RowsFor(j, src) ==
    {r \in 2..Len(outfile[j]) : outfile[j][r].src = src}

\* C13: a make_api_call makes at most MAX_RETRIES attempts; it stops at the
\* first attempt that gets a reply and returns that reply with a null
\* error; when every attempt fails it has made exactly MAX_RETRIES attempts
\* and returns a null response with a non-null error, and the output row
\* has api_error set and match_status and total_hits null.
C13_RetryBound ==
    \A j \in DOMAIN calls : \A k \in 1..Len(calls[j]) :
        LET src == NthGood(infile[j], k)
            script == infile[j][src].api
            call == calls[j][k]
        IN  /\ call.attempts \in 1..MAX_RETRIES
            /\ ~AllAttemptsFail(script) =>
                   /\ call.attempts = FirstReturn(script)
                   /\ call.response = Response(script[FirstReturn(script)])
                   /\ call.error = NULL
            /\ AllAttemptsFail(script) =>
                   /\ call.attempts = MAX_RETRIES
                   /\ call.response = NoResponse
                   /\ call.error # NULL
                   /\ RowsFor(j, src) # {}
                   /\ \A r \in RowsFor(j, src) :
                          /\ outfile[j][r].api_error = call.error
                          /\ outfile[j][r].match_status = NULL
                          /\ outfile[j][r].total_hits = NULL

\* One job has had a call that failed MAX_RETRIES times, one that got its
\* reply on a retry.
C13_Witness ==
    /\ \E j \in DOMAIN calls : \E k \in 1..Len(calls[j]) :
          /\ AllAttemptsFail(infile[j][NthGood(infile[j], k)].api)
          /\ calls[j][k].attempts = MAX_RETRIES
          /\ RowsFor(j, NthGood(infile[j], k)) # {}
    /\ \E j \in DOMAIN calls : \E k \in 1..Len(calls[j]) :
          /\ calls[j][k].attempts > 1
          /\ calls[j][k].error = NULL

\* What make_api_call can put in front of a text when it builds an error.
ErrorPrefixes ==
    {""} \cup {"Error on attempt " \o ToString(a) \o ": " : a \in 1..MAX_RETRIES}

\* The error text contains the part (for the texts make_api_call builds:
\* the part, possibly behind one of ErrorPrefixes).
Contains(text, part) == \E prefix \in ErrorPrefixes : text = prefix \o part

\* C14: when every attempt of a call failed, the error written to api_error
\* carries the error of the last attempt together with the indication that
\* the retry limit was reached; the last error is never dropped or replaced
\* by a generic message.
C14_LastErrorKept ==
    \A j \in DOMAIN outfile : \A r \in 2..Len(outfile[j]) :
        LET script == infile[j][outfile[j][r].src].api
        IN  AllAttemptsFail(script) =>
               /\ Contains(outfile[j][r].api_error, script[MAX_RETRIES])
               /\ Contains(outfile[j][r].api_error, MaxRetriesMessage)

\* C14, first half only: the error of the last attempt is in api_error.
C14_LastErrorCarried ==
    \A j \in DOMAIN outfile : \A r \in 2..Len(outfile[j]) :
        LET script == infile[j][outfile[j][r].src].api
        IN  AllAttemptsFail(script) =>
               Contains(outfile[j][r].api_error, script[MAX_RETRIES])

(* --------------------------- row isolation ----------------------------- *)
\* The Runner of job j has returned and no job-store write of it raised.
EndedWithoutStoreError(j) ==
    /\ j \in DOMAIN runner
    /\ runner[j].pc = "done"
    /\ runner[j].exc # StoreErrorMessage

\* C15: for every input that has a header and every outcome of the
\* Screening Service on every row (success, timeout, transport error, HTTP
\* error status, a reply whose body cannot be used), when the job-store
\* writes succeed run_bulk_job ends with status completed and the output
\* has one row per input data row with at least 3 fields, the failed rows
\* with api_error set and match_status and total_hits null.
C15_RowFailuresStayRowLevel ==
    \A j \in DOMAIN jobs :
        (EndedWithoutStoreError(j) /\ infile[j] # <<>>) =>
            /\ jobs[j].status = "completed"
            /\ RowsWritten(j) = Cardinality(GoodPositions(infile[j]))
            /\ \A src \in GoodPositions(infile[j]) :
                   /\ Cardinality(RowsFor(j, src)) = 1
                   /\ AllAttemptsFail(infile[j][src].api) =>
                          \A r \in RowsFor(j, src) :
                              /\ outfile[j][r].api_error # NULL
                              /\ outfile[j][r].match_status = NULL
                              /\ outfile[j][r].total_hits = NULL

\* C15 without the unusable bodies: the same for the inputs none of whose
\* rows gets a reply with status "success" and a null result.
C15_UsableBodiesStayRowLevel ==
    \A j \in DOMAIN jobs :
        (/\ EndedWithoutStoreError(j)
         /\ infile[j] # <<>>
         /\ \A src \in GoodPositions(infile[j]) :
                \A a \in 1..Len(infile[j][src].api) :
                    infile[j][src].api[a] # "bad_body") =>
            /\ jobs[j].status = "completed"
            /\ RowsWritten(j) = Cardinality(GoodPositions(infile[j]))
            /\ \A src \in GoodPositions(infile[j]) :
                   Cardinality(RowsFor(j, src)) = 1

\* The Runner of job j is at a data row with fewer than MinFields fields.
AtShortRow(j) ==
    /\ runner[j].pc = "loop"
    /\ runner[j].pos <= Len(infile[j])
    /\ infile[j][runner[j].pos].nf < MinFields

\* C16: a data row with fewer than 3 fields gives no output row and no
\* Screening Service call and leaves the processed count, the checkpoint
\* cadence and the job's row alone; the Runner goes on with the next row and
\* raises nothing.
C16_ShortRowsSkipped ==
    /\ [](\A j \in DOMAIN outfile :
            /\ \A r \in 2..Len(outfile[j]) :
                   infile[j][outfile[j][r].src].nf >= MinFields
            /\ j \in DOMAIN calls =>
                   Len(calls[j]) <= Cardinality(GoodPositions(infile[j])))
    /\ [][\A j \in DOMAIN runner \cap DOMAIN runner' :
            (AtShortRow(j) /\ runner'[j] # runner[j]) =>
                /\ runner'[j] = [runner[j] EXCEPT !.pos = @ + 1]
                /\ outfile' = outfile
                /\ calls' = calls
                /\ jobs' = jobs]_vars

\* A completed job whose input had a short row followed by a row that is
\* in the output.
C16_Witness ==
    \E j \in DOMAIN outfile :
        /\ jobs[j].status = "completed"
        /\ \E p \in 2..Len(infile[j]) :
              /\ infile[j][p].nf < MinFields
              /\ \E r \in 2..Len(outfile[j]) : outfile[j][r].src > p

(* --------------------------- output file ------------------------------- *)
\* The columns of an output data row: the input fields, then the derived
\* columns of the deployment.
OutputColumns(v) ==
    {"src"} \cup {DerivedColumns(v)[i] : i \in 1..Len(DerivedColumns(v))}

\* C17: the data rows of a completed job's output are exactly the input
\* data rows with at least 3 fields, in the input's order, each one the
\* unchanged input fields followed by the derived columns (hits_json in the
\* deployment that has it); none is duplicated, reordered or lost.
C17_OutputPreservesOrder ==
    \A j \in DOMAIN jobs :
        jobs[j].status = "completed" =>
            /\ j \in DOMAIN outfile
            /\ Len(outfile[j]) = 1 + Cardinality(GoodPositions(infile[j]))
            /\ outfile[j][1] = HeaderOut(variant)
            /\ \A k \in 1..Cardinality(GoodPositions(infile[j])) :
                   /\ outfile[j][k + 1].src = NthGood(infile[j], k)
                   /\ DOMAIN outfile[j][k + 1] = OutputColumns(variant)

\* A completed job whose input had a short row between two rows that
\* are in the output.
C17_Witness ==
    \E j \in DOMAIN jobs :
        /\ jobs[j].status = "completed"
        /\ Len(outfile[j]) >= 3
        /\ \E p \in 2..Len(infile[j]) :
              /\ infile[j][p].nf < MinFields
              /\ outfile[j][2].src < p
              /\ outfile[j][3].src > p

(* ------------------------ degenerate inputs ---------------------------- *)
\* C18: the job of an empty input file (no header) ends failed, with a
\* non-empty error_message that indicates invalid input, zero rows
\* processed, a null output_reference, and no output file created.
C18_EmptyInputFails ==
    \A j \in DOMAIN jobs :
        (EndedWithoutStoreError(j) /\ infile[j] = <<>>) =>
            /\ jobs[j].status = "failed"
            /\ jobs[j].error_message = EmptyInputMessage
            /\ jobs[j].processed_rows = 0
            /\ jobs[j].output_filename = NULL
            /\ j \notin DOMAIN outfile

\* C18, the error message alone: it is not null and not the empty string.
C18_EmptyInputMessageSet ==
    \A j \in DOMAIN jobs :
        (EndedWithoutStoreError(j) /\ infile[j] = <<>>) =>
            jobs[j].error_message \notin {NULL, ""}

\* The job's input is one header row and nothing else.
HeaderOnly(j) == Len(infile[j]) = 1

\* What the claim says of a header-only job apart from total_rows: nothing
\* processed, no Screening Service call, and a Runner that ends completed
\* with an output that is the extended header alone.
HeaderOnlyRun(j) ==
    /\ jobs[j].processed_rows = 0
    /\ j \in DOMAIN calls => calls[j] = <<>>
    /\ EndedWithoutStoreError(j) =>
           /\ jobs[j].status = "completed"
           /\ outfile[j] = <<HeaderOut(variant)>>

\* C19: for an input of exactly one header row and no data rows the
\* submission records total_rows = 0 and the Runner ends completed with
\* processed_rows = 0, no Screening Service call and an output file that
\* holds only the header row extended by the derived columns.
C19_HeaderOnlyZeroTotal ==
    \A j \in DOMAIN jobs :
        HeaderOnly(j) => (jobs[j].total_rows = 0 /\ HeaderOnlyRun(j))

\* C19 as the code has it: total_rows is the header's physical lines minus
\* one, 0 only when the header row is on one line; the rest as claimed.
C19_HeaderOnlyCompletes ==
    \A j \in DOMAIN jobs :
        HeaderOnly(j) =>
            /\ jobs[j].total_rows = infile[j][1].lines - 1
            /\ infile[j][1].lines = 1 => jobs[j].total_rows = 0
            /\ HeaderOnlyRun(j)

(* ------------------------ completion ordering -------------------------- *)
\* The number of rows a full run of job j transforms.
FinalCount(j) == Cardinality(GoodPositions(infile[j]))

\* The whole input of job j is in its output and in its stored counter.
AllRowsPersisted(j) ==
    /\ RowsWritten(j) = FinalCount(j)
    /\ jobs[j].processed_rows = FinalCount(j)

\* C20: before the status write of completed there have been, in this
\* order: the last input row consumed and its output row written, the final
\* processed_rows checkpoint committed, the output file flushed and closed,
\* the output_reference committed; so nobody reads completed with a null
\* output_reference or with processed_rows below the final count.
C20_CompletionOrdering ==
    /\ [](\A j \in DOMAIN jobs :
            jobs[j].status = "completed" =>
                /\ jobs[j].output_filename # NULL
                /\ j \notin outopen
                /\ AllRowsPersisted(j))
    /\ [][\A j \in DOMAIN jobs :
            /\ (j \in DOMAIN runner' /\ runner'[j].pc = "outref"
                    /\ j \in outopen /\ j \notin outopen') =>
                   /\ RowsWritten(j) = FinalCount(j)
                   /\ jobs'[j].processed_rows = FinalCount(j)
            /\ jobs'[j].output_filename # jobs[j].output_filename =>
                   /\ jobs[j].status # "completed"
                   /\ j \notin outopen
                   /\ AllRowsPersisted(j)
            /\ (jobs'[j].status = "completed" /\ jobs[j].status # "completed") =>
                   /\ jobs[j].output_filename # NULL
                   /\ j \notin outopen
                   /\ AllRowsPersisted(j)]_vars

\* A job with rows has been written completed, its file closed and every
\* call made.
C20_Witness ==
    \E j \in DOMAIN jobs :
        /\ jobs[j].status = "completed"
        /\ FinalCount(j) > 0
        /\ Len(calls[j]) = FinalCount(j)
        /\ jobs[j].output_filename = OutputName(j)
        /\ j \notin outopen

(* --------------------------- store failures ---------------------------- *)
\* The Runner of job j has left run_bulk_job.
RunnerEnded(j) == j \in DOMAIN runner /\ runner[j].pc \in {"done", "dead"}

\* One of the job-store writes of the body of run_bulk_job has raised for
\* job j: inside the try (the exception is the store's), or in the worker's
\* first status write, which leaves the function with nothing caught.
StoreWriteRaised(j) ==
    /\ j \in DOMAIN runner
    /\ \/ runner[j].exc = StoreErrorMessage
       \/ runner[j].pc = "dead" /\ runner[j].exc = NULL

\* C21: when a job-store write of run_bulk_job has raised (the running
\* status write, a periodic or final checkpoint, the output_reference
\* write, the completed status write), the job's stored status ends as
\* failed with a non-null error_message: never pending, running or
\* completed.
C21_StoreFailureFatal ==
    \A j \in DOMAIN jobs :
        (RunnerEnded(j) /\ StoreWriteRaised(j)) =>
            /\ jobs[j].status = "failed"
            /\ jobs[j].error_message # NULL

\* C21 where the handler's own write is committed: a Runner that caught
\* the store's exception and returned has stored failed with its text.
C21_CaughtStoreFailureRecorded ==
    \A j \in DOMAIN jobs :
        (j \in DOMAIN runner /\ runner[j].pc = "done"
            /\ runner[j].exc = StoreErrorMessage) =>
            /\ jobs[j].status = "failed"
            /\ jobs[j].error_message = StoreErrorMessage

(* ------------------------------ liveness ------------------------------- *)
\* C22: every job whose status has become running eventually has status
\* completed or failed, by its Runner or, after a crash, by the next
\* startup; no job stays running for ever.
C22_RunningEnds ==
    \A j \in JobIds :
        (j \in DOMAIN jobs /\ jobs[j].status = "running")
            ~> (j \in DOMAIN jobs /\ Terminal(jobs[j].status))

\* C22 in the app, store failures apart: a running job gets a terminal
\* status unless the write of failed in the handler of its Runner raised.
C22_AppRunningEnds ==
    \A j \in JobIds :
        (variant = "app" /\ j \in DOMAIN jobs /\ jobs[j].status = "running")
            ~> (j \in DOMAIN jobs /\
                   (Terminal(jobs[j].status)
                       \/ (j \in DOMAIN runner /\ runner[j].pc = "dead")))

(* ------------------------- checkpoint cadence -------------------------- *)
\* The interval the claim gives to each deployment: 10 in
\* processing_script.run_bulk_job, 5 in streamlit_app.run_bulk_job.
ClaimedInterval ==
    IF variant = "worker" THEN WorkerCheckpointInterval ELSE AppCheckpointInterval

\* The Runner of job j has not reached the checkpoint after the last row.
BeforeFinalCheckpoint(j) ==
    j \in DOMAIN runner /\ runner[j].pc \in {"start", "open", "loop", "checkpoint"}

\* C23: while a job is running, the stored processed_rows never exceeds
\* the Runner's in-memory count and lags it by at most the interval N;
\* before the final checkpoint every stored value is a multiple of N; so
\* an interruption loses the record of at most N processed rows.
C23_CheckpointCadence ==
    \A j \in DOMAIN jobs :
        /\ Alive(j) =>
               /\ jobs[j].processed_rows <= runner[j].processed_count
               /\ runner[j].processed_count - jobs[j].processed_rows
                      <= ClaimedInterval
               /\ runner[j].processed_count = RowsWritten(j)
        /\ BeforeFinalCheckpoint(j) =>
               jobs[j].processed_rows % ClaimedInterval = 0
        /\ RowsWritten(j) - jobs[j].processed_rows \in 0..ClaimedInterval

\* A running job past its first periodic checkpoint: N stored, more than
\* N counted.
C23_Witness ==
    \E j \in DOMAIN jobs :
        /\ Alive(j)
        /\ jobs[j].status = "running"
        /\ jobs[j].processed_rows = ClaimedInterval
        /\ runner[j].processed_count > ClaimedInterval

\* A Runner is between the increment that reached a multiple of N and
\* the checkpoint: the lag is exactly N.
C23_FullLagReached ==
    \E j \in DOMAIN jobs :
        /\ Alive(j)
        /\ runner[j].processed_count - jobs[j].processed_rows = ClaimedInterval
====
